---- MODULE Spec2Model ----
(***************************************************************************)
(* Pushbullet -> Linkwarden bridge (src/main.py), class                    *)
(* PushbulletLinkwardenBridge: the supervisor run(), the startup catch-up  *)
(* process_initial_pushes, the per-push handler process_push with its      *)
(* watermark map processed_pushes, and the reconnect loop with its backoff *)
(* delay.                                                                  *)
(*                                                                         *)
(* Time stamps (epoch seconds, floats in the program) are integers here.   *)
(* Python's None is the string "None" for identifiers and NoWm for a       *)
(* missing watermark.                                                      *)
(***************************************************************************)
EXTENDS Integers, Sequences, FiniteSets, TLC

(* ------------------------------- bounds -------------------------------- *)

\* Longest list a push fetch returns in the model (the program asks for at
\* most FetchLimit).
MaxBatch == 2

\* Push time stamps range over 1..MaxStamp, and over 100 seconds past a
\* wall-clock reading.
MaxStamp == 3

\* time.time() returns a value of 2..MaxClock.
MaxClock == 2

\* Watermarks a persisted file of an earlier run holds: 1..MaxPrior.
MaxPrior == 1

\* Consecutive reconnect cycles the model follows before it stops counting.
MaxFailures == 4

\* How often the process is killed and started again on the same files.
MaxRestarts == 1

(* ------------------------- program constants --------------------------- *)

DefaultReconnectMaxDelay == 300
DefaultReconnectInitialDelay == 2
InitReconnectDelay == 2
FetchLimit == 10

None == "None"
NoWm == -1

Devices == {"d1", "d2"}

Clocks == 2..MaxClock
Stamps == (1..MaxStamp) \cup {c + 100 : c \in Clocks}

Min(a, b) == IF a <= b THEN a ELSE b

RECURSIVE SetMax(_)
SetMax(S) ==
    LET x == CHOOSE y \in S : TRUE
    IN  IF S = {x} THEN x
        ELSE LET m == SetMax(S \ {x}) IN IF x >= m THEN x ELSE m

Range(s) == {s[i] : i \in DOMAIN s}

EmptyMap == [d \in {} |-> 0]

PutNothing(f, k, v) == f

\* dict[key] = value
Put(f, k, v) == [x \in DOMAIN f \cup {k} |-> IF x = k THEN v ELSE f[x]]

\* The watermark of a device, NoWm when the map has no entry for it.
Watermark(pp, d) == IF d \in DOMAIN pp THEN pp[d] ELSE NoWm

(* ------------------------------ pushes --------------------------------- *)

Push(t, m, tgt, src, u) ==
    [type |-> t, modified |-> m, target_device_iden |-> tgt,
     source_device_iden |-> src, url |-> u]

NoPush == Push("none", 0, None, None, None)

\* A url field whose JSON value is not a string (a number): truthy, and
\* without a startswith method.
NotAStr == "not-a-str"

\* The pushes the Pushbullet server may hold: link pushes to d1 at every
\* stamp, one to d2 at the latest, a push from d1 to d2, a push with only a source device, one
\* with no device, one with no URL, one whose url is no string, and a note
\* that carries a URL.
PushUniverse ==
    {Push("link", m, "d1", None, "url") : m \in Stamps}
    \cup {Push("link", MaxStamp, "d2", None, "url")}
    \cup {Push("link", 2, "d2", "d1", "url"),
          Push("link", 2, None, "d1", "url"),
          Push("link", 2, None, None, "url"),
          Push("link", 3, "d1", None, None),
          Push("link", 2, "d1", None, NotAStr),
          Push("note", 2, "d1", None, "url")}

\* What one GET /pushes may answer: any list of distinct pushes, newest
\* first or not, and the empty list when the request fails.
Batches ==
    UNION {{s \in [1..n -> PushUniverse] :
              \A i, j \in 1..n : i < j => s[i] # s[j]} : n \in 0..Min(MaxBatch, FetchLimit)}

(* --------------------------- configuration ----------------------------- *)

Channel(dev, coll) == [device_iden |-> dev, collection_id |-> coll]

ChannelLists ==
    {<<Channel("d1", "c1"), Channel("d2", "c2")>>,
     <<Channel("d2", "c2"), Channel("d1", "c1")>>,
     <<Channel(None, "c2"), Channel("d1", "c1")>>}

AppSettings(dry, maxd, initd) ==
    [dry_run |-> dry, reconnect_max_delay |-> maxd,
     reconnect_initial_delay |-> initd]

DefaultSettings ==
    AppSettings(FALSE, DefaultReconnectMaxDelay, DefaultReconnectInitialDelay)

Config(chs, st) == [channels |-> chs, settings |-> st]

\* The configuration files a run may load: every channel list with the
\* default settings, the one-channel list with other settings (a dry run, a
\* maximum above the initial delay, a maximum below it), and a file with no
\* channels.
Configs ==
    {Config(chs, DefaultSettings) : chs \in ChannelLists}
    \cup {Config(<<Channel("d1", "c1")>>, st) :
            st \in {AppSettings(TRUE, DefaultReconnectMaxDelay,
                                DefaultReconnectInitialDelay),
                    AppSettings(FALSE, 10, 3),
                    AppSettings(FALSE, 4, 5)}}
    \cup {Config(<<>>, DefaultSettings)}

NoConfig == Config(<<>>, DefaultSettings)

\* processed_pushes.json as an earlier run left it (EmptyMap: no file).
InitialFiles == UNION {[D -> 1..MaxPrior] : D \in SUBSET Devices}

(* ------------------------------- state --------------------------------- *)

VARIABLES
    pc,                \* where run() is
    config,            \* self.config, as load_config read it
    settings,          \* self.settings
    processed_pushes,  \* self.processed_pushes: device_iden -> last modified
    file,              \* processed_pushes.json
    reconnect_delay,   \* self.reconnect_delay
    es,                \* the stream connection (self.ws): DISCONNECTED,
                       \* CONNECTING, CONNECTED, CLOSED (closed after it
                       \* opened) or FAILED (never opened)
    wait,              \* the argument of the last time.sleep of run()
    chan,              \* the channel process_initial_pushes is at
    queue,             \* the pushes the running for-loop has still to handle
    \* What the run did, kept to state the properties:
    polled,            \* the list the last fetch returned to its for-loop
    polled_wm,         \* processed_pushes when that list was fetched
    delivered,         \* the POST /links requests since that fetch
    last,              \* the last push handled or baseline taken, its outcome
    now_at,            \* device -> the time.time() its baseline recorded,
                       \* until a pass has moved its watermark
    start_wm,          \* during the catch-up: processed_pushes as
                       \* load_processed_pushes left it
    failures,          \* reconnect cycles since the connection last opened
    running,           \* self.running
    \* A crash of the process and its restart on the same file:
    before_crash,      \* the pushes the sink stored in the pass the crash ended
    inflight,          \* the push process_push was at when the process died
    restarts,          \* how often the process was started again
    disk,              \* "ok", or "faulty": writes to the file may fail
    \* One call of _resolve_url:
    rpc,               \* where the call is
    url,               \* its argument
    requests,          \* the probing requests it has issued, in order
    response,          \* the response it last got
    resolved_url,      \* what it returned
    phases,            \* the phases of run() that have returned, in order
    calls,             \* the kinds of request the process has made
    log,               \* the levels of the lines it logged
    push_title,        \* push.get('title', '') of the push at hand
    page,              \* what the GET of _extract_page_title came back with
    title,             \* the local title of process_push
    link_data          \* the body of the POST /links

vars == <<pc, config, settings, processed_pushes, file, reconnect_delay, es,
          wait, chan, queue, polled, polled_wm, delivered, last, now_at,
          start_wm, failures, running, before_crash, inflight, restarts,
          disk, phases, calls, rpc, url, requests, response, resolved_url, log,
          push_title, page, title, link_data>>

conn_vars == <<reconnect_delay, es, wait, failures>>
push_vars == <<processed_pushes, file, queue, polled, polled_wm, delivered,
               last, now_at>>
crash_vars == <<before_crash, inflight, restarts, disk>>
sup_vars == <<phases, calls>>
run_vars == <<pc, config, settings, conn_vars, push_vars, chan, start_wm,
              running, crash_vars, sup_vars>>
title_vars == <<push_title, page, title, link_data>>
resolve_vars == <<rpc, url, requests, response, resolved_url, log,
                  title_vars>>

\* A URL is the sequence of its parts: <<"https://", "search.app", "/",
\* "abc">> is https://search.app/abc, <<>> is the empty string and NoneUrl
\* is Python's None where a URL is expected.
NoneUrl == <<None>>

\* A response to a probing request, as far as _resolve_url reads it: the
\* status and the Location header (NoneUrl: no such header).
Response(status, location) == [status_code |-> status, location |-> location]

NoResponse == Response(0, NoneUrl)

\* No POST /links has been put together.
NoLink == [url |-> NoneUrl, name |-> NoneUrl]

\* No title is being worked out.
TitleIdle ==
    /\ push_title = NoneUrl
    /\ page = [status |-> "idle", tag |-> FALSE, string |-> NoneUrl]
    /\ title = NoneUrl
    /\ link_data = NoLink

\* _resolve_url is not running.
ResolveIdle ==
    /\ TitleIdle
    /\ rpc = "idle"
    /\ url = NoneUrl
    /\ requests = <<>>
    /\ response = NoResponse
    /\ resolved_url = NoneUrl
    /\ log = <<>>

Event(op, push, dev, wm, outcome) ==
    [op |-> op, push |-> push, dev |-> dev, wm |-> wm, outcome |-> outcome]

NoEvent == Event("none", NoPush, None, NoWm, "none")

\* The state __init__ leaves, but for the files on disk.
Constructed ==
    /\ pc = "start"
    /\ config = NoConfig
    /\ settings = DefaultSettings
    /\ processed_pushes = EmptyMap
    /\ reconnect_delay = InitReconnectDelay
    /\ es = "DISCONNECTED"
    /\ wait = 0
    /\ chan = 0
    /\ queue = <<>>
    /\ polled = <<>>
    /\ polled_wm = EmptyMap
    /\ delivered = <<>>
    /\ last = NoEvent
    /\ now_at = EmptyMap
    /\ start_wm = EmptyMap
    /\ failures = 0
    /\ running = TRUE
    /\ before_crash = {}
    /\ inflight = NoPush
    /\ restarts = 0
    /\ phases = <<>>
    /\ calls = {}

Init ==
    /\ Constructed
    /\ file \in InitialFiles
    /\ disk = "ok"
    /\ ResolveIdle

(* ------------------------------ startup -------------------------------- *)

\* load_config: the file's settings replace the defaults; reconnect_delay is
\* not touched.
load_config ==
    /\ pc = "start"
    /\ \E c \in Configs :
        /\ config' = c
        /\ settings' = c.settings
    /\ pc' = "validate"
    /\ phases' = Append(phases, "config")
    /\ UNCHANGED <<conn_vars, push_vars, chan, start_wm,
                   running, crash_vars, calls, resolve_vars>>

\* validate_config, for the part the configurations differ in.
validate_config(c) == c.channels # <<>>

AfterValidateGoOn(valid) == "resolve"

\* if not self.validate_config(): sys.exit(1)
AfterValidate(valid) == IF valid THEN "resolve" ELSE "exit1"

validate ==
    /\ pc = "validate"
    /\ pc' = AfterValidate(validate_config(config))
    /\ phases' = Append(phases, "validate")
    /\ UNCHANGED <<config, settings, conn_vars, push_vars, chan, start_wm,
                   running, crash_vars, calls, resolve_vars>>

\* resolve_devices and resolve_collections: GET devices, GET collections
\* and the POSTs for missing ones. Channels that carry their identifiers
\* stay as they are; a channel whose device could not be matched or created
\* has none.
resolve_directories ==
    /\ pc = "resolve"
    /\ pc' = "load"
    /\ phases' = Append(phases, "directories")
    /\ calls' = calls \cup {"directory"}
    /\ UNCHANGED <<config, settings, conn_vars, push_vars, chan, start_wm,
                   running, crash_vars, resolve_vars>>

load_processed_pushes ==
    /\ pc = "load"
    /\ processed_pushes' = file
    /\ start_wm' = file
    /\ chan' = 1
    /\ pc' = "catchup"
    /\ phases' = Append(phases, "watermarks")
    /\ UNCHANGED <<config, settings, conn_vars, file, queue, polled,
                   polled_wm, delivered, last, now_at,
                   running, crash_vars, calls, resolve_vars>>

(* ---------------------------- process_push ----------------------------- *)

\* fetch_recent_pushes: whatever the server answers, [] on a failed request.
fetch_recent_pushes(modified_after) == Batches

OwningDeviceSourceFirst(push) ==
    IF push.source_device_iden # None THEN push.source_device_iden
    ELSE push.target_device_iden

\* device_iden = target_device_iden or source_device_iden
OwningDevice(push) ==
    IF push.target_device_iden # None THEN push.target_device_iden
    ELSE push.source_device_iden

RECURSIVE FirstChannel(_, _, _)
FirstChannel(channels, device_iden, i) ==
    IF i > Len(channels) THEN 0
    ELSE IF channels[i].device_iden = device_iden THEN i
    ELSE FirstChannel(channels, device_iden, i + 1)

get_collection_for_device(channels, device_iden) ==
    IF device_iden = None THEN None
    ELSE LET i == FirstChannel(channels, device_iden, 1)
         IN  IF i = 0 THEN None ELSE channels[i].collection_id

IsLinkNever(push) == TRUE

\* if push_type != 'link': return
IsLink(push) == push.type = "link"

AlreadyProcessedNever(pp, device_iden, push_modified) == FALSE

AlreadyProcessedStrict(pp, device_iden, push_modified) ==
    /\ device_iden \in DOMAIN pp
    /\ push_modified < pp[device_iden]

\* if device_iden in self.processed_pushes and push_modified <= last_processed
AlreadyProcessed(pp, device_iden, push_modified) ==
    /\ device_iden \in DOMAIN pp
    /\ push_modified <= pp[device_iden]

\* The early returns of process_push, in the program's order; "raise" when
\* _resolve_url raises on url.startswith, outside its try block; "pass" when
\* the push gets to save_to_linkwarden.
Outcome(channels, pp, push) ==
    LET device_iden == OwningDevice(push)
    IN  IF ~IsLink(push) THEN "nonlink"
        ELSE IF device_iden = None THEN "nodevice"
        ELSE IF get_collection_for_device(channels, device_iden) = None
             THEN "nocollection"
        ELSE IF AlreadyProcessed(pp, device_iden, push.modified)
             THEN "already"
        ELSE IF push.url = None THEN "nourl"
        ELSE IF push.url = NotAStr THEN "raise"
        ELSE "pass"

\* save_processed_pushes: the file is rewritten (TRUE), or, on a disk that
\* fails writes, open or json.dump raises, which is logged and nothing more
\* (FALSE).
SaveOutcomes(d) == IF d = "faulty" THEN BOOLEAN ELSE {TRUE}

Delivery(push, dev, coll, wm, ok) ==
    [push |-> push, dev |-> dev, coll |-> coll, wm |-> wm, ok |-> ok]

\* Whether a try block with except Exception is around the call of
\* process_push: in on_websocket_message, not in process_initial_pushes.
ExceptionCaught(at) == at = "message"

\* process_push(queue[1]): the body of the for-loops of
\* process_initial_pushes and on_websocket_message. An exception it raises
\* leaves the for-loop: on_websocket_message catches it and returns;
\* process_initial_pushes and run() do not, and the process ends.
SendsLinkAlways(st) == TRUE

\* save_to_linkwarden: if self.settings.dry_run: return, before the POST
SendsLink(st) == ~st.dry_run

process_push ==
    /\ pc \in {"catchup_push", "message"}
    /\ queue # <<>>
    /\ LET push == Head(queue)
           device_iden == OwningDevice(push)
           collection_id ==
               get_collection_for_device(config.channels, device_iden)
           wm == Watermark(processed_pushes, device_iden)
           outcome == Outcome(config.channels, processed_pushes, push)
       IN  IF outcome = "raise"
           THEN /\ last' = Event("push", push, device_iden, wm, "raised")
                /\ pc' = IF ExceptionCaught(pc) THEN pc ELSE "crashed"
                /\ queue' = <<>>
                /\ UNCHANGED <<processed_pushes, file, delivered>>
           ELSE IF outcome # "pass"
           THEN /\ last' = Event("push", push, device_iden, wm, outcome)
                /\ queue' = Tail(queue)
                /\ UNCHANGED <<pc, processed_pushes, file, delivered>>
           ELSE \* save_to_linkwarden, then the watermark and its file
                /\ \/ /\ ~SendsLink(settings)
                      /\ last' = Event("push", push, device_iden, wm, "dryrun")
                      /\ UNCHANGED delivered
                   \/ /\ SendsLink(settings)
                      /\ \E ok \in BOOLEAN :
                          /\ delivered' = Append(delivered,
                                Delivery(push, device_iden, collection_id,
                                         wm, ok))
                          /\ last' = Event("push", push, device_iden, wm,
                                           IF ok THEN "saved" ELSE "failed")
                /\ processed_pushes' =
                       Put(processed_pushes, device_iden, push.modified)
                /\ \E saved \in SaveOutcomes(disk) :   \* save_processed_pushes
                       file' = IF saved THEN processed_pushes' ELSE file
                /\ queue' = Tail(queue)
                /\ UNCHANGED pc
    /\ calls' = IF /\ Outcome(config.channels, processed_pushes,
                               Head(queue)) = "pass"
                    /\ SendsLink(settings)
                 THEN calls \cup {"sink"}     \* POST /links
                 ELSE calls
    /\ UNCHANGED <<config, settings, conn_vars, chan, polled, polled_wm,
                   now_at, start_wm,
                   running, crash_vars, phases, resolve_vars>>

(* ----------------------- process_initial_pushes ------------------------ *)

\* p.get('target_device_iden') == device_iden
\*     or p.get('source_device_iden') == device_iden
OfDevice(push, device_iden) ==
    \/ push.target_device_iden = device_iden
    \/ push.source_device_iden = device_iden

\* The link pushes of a device in a fetched list.
LinkPushesOf(pushes, device_iden) ==
    {p \in Range(pushes) : p.type = "link" /\ OfDevice(p, device_iden)}

BaselineWatermarkZero(link_pushes, now) ==
    IF link_pushes # {} THEN SetMax({p.modified : p \in link_pushes}) ELSE 0

\* The watermark a new device gets: the latest modified of its link pushes,
\* time.time() when it has none.
BaselineWatermark(link_pushes, now) ==
    IF link_pushes # {} THEN SetMax({p.modified : p \in link_pushes}) ELSE now

\* A channel with no device_iden: continue.
catchup_skip ==
    /\ pc = "catchup"
    /\ chan <= Len(config.channels)
    /\ config.channels[chan].device_iden = None
    /\ chan' = chan + 1
    /\ UNCHANGED <<pc, config, settings, conn_vars, push_vars, start_wm,
                   running, crash_vars, sup_vars, resolve_vars>>

\* A device with no entry in processed_pushes: its watermark is recorded and
\* none of the fetched pushes is handled.
catchup_baseline ==
    /\ pc = "catchup"
    /\ chan <= Len(config.channels)
    /\ LET device_iden == config.channels[chan].device_iden
       IN  /\ device_iden # None
           /\ device_iden \notin DOMAIN processed_pushes
           /\ \E pushes \in fetch_recent_pushes(0), now \in Clocks :
               LET link_pushes == LinkPushesOf(pushes, device_iden)
                   latest == BaselineWatermark(link_pushes, now)
               IN  /\ processed_pushes' =
                          Put(processed_pushes, device_iden, latest)
                   /\ now_at' = IF link_pushes = {}
                                THEN Put(now_at, device_iden, now)
                                ELSE now_at
                   /\ last' = Event("baseline", NoPush, device_iden, NoWm,
                                    IF link_pushes = {} THEN "now"
                                    ELSE "latest")
                   /\ polled' = pushes
           /\ polled_wm' = processed_pushes
           /\ delivered' = <<>>
           /\ \E saved \in SaveOutcomes(disk) :   \* save_processed_pushes
                  file' = IF saved THEN processed_pushes' ELSE file
    /\ pc' = "catchup_push"
    /\ calls' = calls \cup {"fetch"}               \* continue
    /\ UNCHANGED <<config, settings, conn_vars, chan, queue, start_wm,
                   running, crash_vars, phases, resolve_vars>>

\* A device with a watermark: its pushes among the fetched ones go through
\* process_push, in the order the fetch gave them.
catchup_fetch ==
    /\ pc = "catchup"
    /\ chan <= Len(config.channels)
    /\ LET device_iden == config.channels[chan].device_iden
       IN  /\ device_iden # None
           /\ device_iden \in DOMAIN processed_pushes
           /\ \E pushes \in fetch_recent_pushes(processed_pushes[device_iden]) :
               LET Mine(p) == OfDevice(p, device_iden)
                   device_pushes == SelectSeq(pushes, Mine)
               IN  /\ queue' = device_pushes
                   /\ polled' = device_pushes
    /\ polled_wm' = processed_pushes
    /\ delivered' = <<>>
    /\ last' = NoEvent
    /\ pc' = "catchup_push"
    /\ calls' = calls \cup {"fetch"}
    /\ UNCHANGED <<config, settings, conn_vars, processed_pushes, file, chan,
                   now_at, start_wm,
                   running, crash_vars, phases, resolve_vars>>

\* now_at without the devices whose watermark is no longer the time.time()
\* of their baseline.
StillNow(na, pp) ==
    [d \in {e \in DOMAIN na : Watermark(pp, e) = na[e]} |-> na[d]]

\* The for-loop over device_pushes is through, or the baseline is taken:
\* the next channel.
catchup_next ==
    /\ pc = "catchup_push"
    /\ queue = <<>>
    /\ chan' = chan + 1
    /\ pc' = "catchup"
    /\ polled' = <<>>
    /\ polled_wm' = EmptyMap
    /\ delivered' = <<>>
    /\ last' = NoEvent
    /\ now_at' = StillNow(now_at, processed_pushes)
    /\ UNCHANGED <<config, settings, conn_vars, processed_pushes, file, queue, start_wm,
                   running, crash_vars, sup_vars, resolve_vars>>

\* process_initial_pushes returns; run() enters its while-loop.
catchup_done ==
    /\ pc = "catchup"
    /\ chan > Len(config.channels)
    /\ pc' = "loop"
    /\ phases' = Append(phases, "catchup")
    /\ polled' = <<>>
    /\ polled_wm' = EmptyMap
    /\ delivered' = <<>>
    /\ last' = NoEvent
    /\ start_wm' = EmptyMap
    /\ before_crash' = {}
    /\ inflight' = NoPush
    /\ UNCHANGED <<config, settings, conn_vars, processed_pushes, file, queue,
                   chan, now_at,
                   running, restarts, disk, calls, resolve_vars>>

\* for push in pushes: self.process_push(push), run to its end with no
\* exception: the watermarks it leaves and the pushes it handed to
\* save_to_linkwarden, in order.
RECURSIVE ProcessAll(_, _, _, _)
ProcessAll(channels, pp, sent, pushes) ==
    IF pushes = <<>> THEN [pp |-> pp, sent |-> sent]
    ELSE LET push == Head(pushes)
         IN  IF Outcome(channels, pp, push) = "pass"
             THEN ProcessAll(channels,
                             Put(pp, OwningDevice(push), push.modified),
                             Append(sent, push), Tail(pushes))
             ELSE ProcessAll(channels, pp, sent, Tail(pushes))

\* The incremental branch of process_initial_pushes for the channels from
\* the i-th on, with the list server on the Pushbullet side: per channel the
\* pushes after its watermark, those of its device, through process_push.
RECURSIVE IncrementalCatchup(_, _, _, _, _)
IncrementalCatchup(channels, pp, sent, server, i) ==
    IF i > Len(channels) THEN [pp |-> pp, sent |-> sent]
    ELSE LET device_iden == channels[i].device_iden
         IN  IF device_iden = None \/ device_iden \notin DOMAIN pp
             THEN IncrementalCatchup(channels, pp, sent, server, i + 1)
             ELSE LET Mine(p) == /\ p.modified >= pp[device_iden]
                                 /\ OfDevice(p, device_iden)
                      r == ProcessAll(channels, pp, sent,
                                      SelectSeq(server, Mine))
                  IN  IncrementalCatchup(channels, r.pp, r.sent, server, i + 1)

(* --------------------------- the stream loop --------------------------- *)

\* connect_to_pushbullet_stream: WebSocketApp(...).run_forever()
connect_to_pushbullet_stream ==
    /\ pc = "loop"
    /\ running                            \* while self.running
    /\ es' = "CONNECTING"
    /\ pc' = "stream"
    /\ calls' = calls \cup {"stream"}
    /\ UNCHANGED <<config, settings, reconnect_delay, wait, failures,
                   push_vars, chan, start_wm,
                   running, crash_vars, phases, resolve_vars>>

OpenDelayKept(delay, st) == delay

\* self.reconnect_delay = self.settings.reconnect_initial_delay
OpenDelay(delay, st) == st.reconnect_initial_delay

on_websocket_open ==
    /\ pc = "stream"
    /\ es = "CONNECTING"
    /\ es' = "CONNECTED"
    /\ reconnect_delay' = OpenDelay(reconnect_delay, settings)
    /\ failures' = 0
    /\ UNCHANGED <<pc, config, settings, wait, push_vars, chan, start_wm,
                   running, crash_vars, sup_vars, resolve_vars>>

\* The frames the stream carries: text that is no JSON, a nop, a tickle of
\* another subtype, and the push tickle.
Frames == {"garbage", "nop", "tickle-device", "tickle-push"}

IsPushTickleAnyTickle(frame) == frame \in {"tickle-device", "tickle-push"}

\* if msg_type == 'tickle' and data.get('subtype') == 'push'; json.loads
\* has raised before on text that is no JSON.
IsPushTickle(frame) == frame = "tickle-push"

\* One frame on the open connection; last records the frame.
on_websocket_message ==
    /\ pc = "stream"
    /\ es = "CONNECTED"
    /\ queue = <<>>
    /\ \E frame \in Frames :
        /\ last' = Event("frame", NoPush, None, NoWm, frame)
        /\ calls' = IF IsPushTickle(frame) THEN calls \cup {"fetch"}
                  ELSE calls
        /\ IF IsPushTickle(frame)
           THEN /\ \E pushes \in fetch_recent_pushes(0) :
                     /\ queue' = pushes
                     /\ polled' = pushes
                /\ polled_wm' = processed_pushes
                /\ pc' = "message"
           ELSE UNCHANGED <<pc, queue, polled, polled_wm>>
    /\ UNCHANGED <<config, settings, conn_vars, processed_pushes, file,
                   delivered, chan, now_at, start_wm,
                   running, crash_vars, phases, resolve_vars>>

\* The for-loop over the fetched pushes is through: on_websocket_message
\* returns to run_forever.
message_done ==
    /\ pc = "message"
    /\ queue = <<>>
    /\ pc' = "stream"
    /\ polled' = <<>>
    /\ polled_wm' = EmptyMap
    /\ delivered' = <<>>
    /\ last' = NoEvent
    /\ now_at' = StillNow(now_at, processed_pushes)
    /\ UNCHANGED <<config, settings, conn_vars, processed_pushes, file, queue,
                   chan, start_wm,
                   running, crash_vars, sup_vars, resolve_vars>>

\* run_forever returns (or raises): on_error and on_close have logged. The
\* connection never opened (FAILED) or was open (CLOSED).
websocket_closed ==
    /\ pc = "stream"
    /\ queue = <<>>
    /\ es \in {"CONNECTING", "CONNECTED"}
    /\ es' = IF es = "CONNECTED" THEN "CLOSED" ELSE "FAILED"
    /\ pc' = "closed"
    /\ last' = NoEvent
    /\ UNCHANGED <<config, settings, reconnect_delay, wait, failures,
                   processed_pushes, file, queue, polled, polled_wm,
                   delivered, now_at, chan, start_wm,
                   running, crash_vars, sup_vars, resolve_vars>>

\* min(self.reconnect_delay * 2, self.settings.reconnect_max_delay)
NextDelay(delay, st) == Min(delay * 2, st.reconnect_max_delay)

ShouldReconnectNever(r) == FALSE

\* if self.running:
ShouldReconnect(r) == r

\* if self.running: time.sleep(self.reconnect_delay)
sleep ==
    /\ pc = "closed"
    /\ ShouldReconnect(running)
    /\ failures < MaxFailures
    /\ wait' = reconnect_delay
    /\ pc' = "sleeping"
    /\ UNCHANGED <<config, settings, reconnect_delay, es, failures, push_vars,
                   chan, start_wm,
                   running, crash_vars, sup_vars, resolve_vars>>

\* The sleep is over: the exponential backoff, and the while-loop again.
backoff ==
    /\ pc = "sleeping"
    /\ reconnect_delay' = NextDelay(reconnect_delay, settings)
    /\ failures' = failures + 1
    /\ wait' = 0
    /\ es' = "DISCONNECTED"
    /\ pc' = "loop"
    /\ UNCHANGED <<config, settings, push_vars, chan, start_wm,
                   running, crash_vars, sup_vars, resolve_vars>>

(* ------------------------------ shutdown ------------------------------- *)

\* Where the process has ended: sys.exit(0), sys.exit(1), an exception that
\* left run().
Ended == {"exit0", "exit1", "crashed"}

CloseKept(e) == e

\* if self.ws: self.ws.close()
CloseWs(e) == IF e \in {"CONNECTING", "CONNECTED"} THEN "CLOSED" ELSE e

\* SIGINT or SIGTERM, delivered in any phase of run(): _signal_handler.
\* sys.exit(0) raises SystemExit at the point the main thread is at, which
\* abandons the for-loop it is in; last records the phase.
signal_handler ==
    /\ pc \notin Ended \cup {"SystemExit"}
    /\ running' = FALSE
    /\ es' = CloseWs(es)
    /\ pc' = "SystemExit"
    /\ queue' = <<>>
    /\ polled' = <<>>
    /\ polled_wm' = EmptyMap
    /\ delivered' = <<>>
    /\ start_wm' = EmptyMap
    /\ last' = Event("signal", NoPush, None, NoWm, pc)
    /\ UNCHANGED <<config, settings, reconnect_delay, wait, failures,
                   processed_pushes, file, now_at, chan, crash_vars,
                   sup_vars, resolve_vars>>

\* SystemExit is no Exception: neither the handlers nor run() catch it, and
\* the interpreter exits with status 0.
sys_exit ==
    /\ pc = "SystemExit"
    /\ pc' = "exit0"
    /\ UNCHANGED <<config, settings, conn_vars, push_vars, chan, start_wm,
                   running, crash_vars, sup_vars, resolve_vars>>

(* ------------------------- crash and restart -------------------------- *)

\* The requests of the running pass that the sink answered.
Stored0 == {j \in DOMAIN delivered : delivered[j].ok}

\* The process started again on the same config.yaml and
\* processed_pushes.json: __init__, load_config and validate_config as
\* before, up to load_processed_pushes.
Restarted ==
    /\ pc' = "load"
    /\ processed_pushes' = EmptyMap
    /\ reconnect_delay' = InitReconnectDelay
    /\ es' = "DISCONNECTED"
    /\ wait' = 0
    /\ failures' = 0
    /\ running' = TRUE
    /\ chan' = 0
    /\ queue' = <<>>
    /\ polled' = <<>>
    /\ polled_wm' = EmptyMap
    /\ delivered' = <<>>
    /\ last' = NoEvent
    /\ start_wm' = EmptyMap
    /\ now_at' = EmptyMap
    /\ restarts' = restarts + 1
    /\ phases' = <<"config", "validate", "directories">>
    /\ calls' = {"directory"}
    /\ UNCHANGED <<config, settings, file, disk, resolve_vars>>

\* The process is killed between two steps of a for-loop over fetched
\* pushes, or while it waits on the stream.
crash ==
    /\ pc \in {"catchup_push", "message", "stream"}
    /\ restarts < MaxRestarts
    /\ before_crash' = {delivered[j].push : j \in Stored0}
    /\ inflight' = NoPush
    /\ Restarted

\* The process is killed inside process_push, after the sink has stored the
\* push and before the watermark is written.
crash_in_flight ==
    /\ pc \in {"catchup_push", "message"}
    /\ restarts < MaxRestarts
    /\ queue # <<>>
    /\ ~settings.dry_run
    /\ Outcome(config.channels, processed_pushes, Head(queue)) = "pass"
    /\ before_crash' = {delivered[j].push : j \in Stored0} \cup {Head(queue)}
    /\ inflight' = Head(queue)
    /\ Restarted

Next ==
    \/ signal_handler
    \/ sys_exit
    \/ load_config
    \/ validate
    \/ resolve_directories
    \/ load_processed_pushes
    \/ catchup_skip
    \/ catchup_baseline
    \/ catchup_fetch
    \/ process_push
    \/ catchup_next
    \/ catchup_done
    \/ connect_to_pushbullet_stream
    \/ on_websocket_open
    \/ on_websocket_message
    \/ message_done
    \/ websocket_closed
    \/ sleep
    \/ backoff

Spec == Init /\ [][Next]_vars

\* The program on a disk that may fail writes, killed and started again up
\* to MaxRestarts times: from load_processed_pushes on, with the default
\* settings and one or two channels.
FaultConfigs ==
    {Config(<<Channel("d1", "c1")>>, DefaultSettings),
     Config(<<Channel("d1", "c1"), Channel("d2", "c2")>>, DefaultSettings)}

FaultInit ==
    /\ pc = "load"
    /\ config \in FaultConfigs
    /\ settings = config.settings
    /\ processed_pushes = EmptyMap
    /\ file \in InitialFiles
    /\ reconnect_delay = InitReconnectDelay
    /\ es = "DISCONNECTED"
    /\ wait = 0
    /\ chan = 0
    /\ queue = <<>>
    /\ polled = <<>>
    /\ polled_wm = EmptyMap
    /\ delivered = <<>>
    /\ last = NoEvent
    /\ now_at = EmptyMap
    /\ start_wm = EmptyMap
    /\ failures = 0
    /\ running = TRUE
    /\ before_crash = {}
    /\ inflight = NoPush
    /\ restarts = 0
    /\ disk = "faulty"
    /\ phases = <<"config", "validate", "directories">>
    /\ calls = {"directory"}
    /\ ResolveIdle

FaultNext ==
    \/ load_processed_pushes
    \/ catchup_baseline
    \/ catchup_fetch
    \/ process_push
    \/ catchup_next
    \/ catchup_done
    \/ connect_to_pushbullet_stream
    \/ on_websocket_open
    \/ on_websocket_message
    \/ message_done
    \/ crash
    \/ crash_in_flight

FaultSpec == FaultInit /\ [][FaultNext]_vars

(* ---------------------------- _resolve_url ----------------------------- *)

SearchAppPrefix == <<"https://", "search.app", "/">>

StartsWithHost(s, prefix) == Len(s) >= 2 /\ s[2] = prefix[2]

\* s.startswith(prefix)
StartsWith(s, prefix) ==
    /\ Len(s) >= Len(prefix)
    /\ SubSeq(s, 1, Len(prefix)) = prefix

\* The URLs _resolve_url is called with.
Urls ==
    {<<"https://", "search.app", "/", "abc">>,
     <<"https://", "search.app", "/">>,
     <<"https://", "search.app">>,
     <<"http://", "search.app", "/", "abc">>,
     <<"https://", "example.com", "/", "page">>,
     <<"https://", "search.app.example.com", "/", "abc">>}

Redirects == {301, 302, 303, 307, 308}

Statuses == Redirects \cup {200, 403, 404}

\* The Location header of a response: none, empty, a URL.
Locations == {NoneUrl, <<>>, <<"https://", "example.com", "/", "page">>}

\* requests.head or requests.get raised (a timeout, no connection).
Raised == Response(-1, NoneUrl)

\* What a probing request may come back with.
Answers == {Response(st, loc) : st \in Statuses, loc \in Locations}
           \cup {Raised}

Request(method, answer) == [method |-> method, answer |-> answer]

\* if not url.startswith('https://search.app/'): return url
resolve_as_is ==
    /\ rpc = "called"
    /\ ~StartsWith(url, SearchAppPrefix)
    /\ resolved_url' = url
    /\ rpc' = "done"
    /\ UNCHANGED <<url, requests, response, log>>
    /\ UNCHANGED <<run_vars, title_vars>>

NeedsGetNever(answer) == FALSE

\* if response.status_code == 403
NeedsGet(answer) == answer.status_code = 403

\* requests.head(url, allow_redirects=False)
resolve_head ==
    /\ rpc = "called"
    /\ StartsWith(url, SearchAppPrefix)
    /\ log' = Append(log, "info")
    /\ \E answer \in Answers :
        /\ requests' = Append(requests, Request("HEAD", answer))
        /\ response' = answer
        /\ rpc' = IF answer = Raised THEN "except"
                  ELSE IF NeedsGet(answer) THEN "get" ELSE "check"
    /\ UNCHANGED <<url, resolved_url>>
    /\ UNCHANGED <<run_vars, title_vars>>

\* requests.get(url, allow_redirects=False), after a 403 to HEAD
resolve_get ==
    /\ rpc = "get"
    /\ log' = Append(log, "debug")
    /\ \E answer \in Answers :
        /\ requests' = Append(requests, Request("GET", answer))
        /\ response' = answer
        /\ rpc' = IF answer = Raised THEN "except" ELSE "check"
    /\ UNCHANGED <<url, resolved_url>>
    /\ UNCHANGED <<run_vars, title_vars>>

\* if response.status_code in (301, 302, 303, 307, 308):
\*     resolved_url = response.headers.get('location')
\*     if resolved_url: return resolved_url
\* return url
resolve_check ==
    /\ rpc = "check"
    /\ IF /\ response.status_code \in Redirects
          /\ response.location # NoneUrl
          /\ response.location # <<>>
       THEN /\ resolved_url' = response.location
            /\ log' = Append(log, "info")
       ELSE /\ resolved_url' = url
            /\ log' = Append(log, "warning")
    /\ rpc' = "done"
    /\ UNCHANGED <<url, requests, response>>
    /\ UNCHANGED <<run_vars, title_vars>>

\* except Exception: logger.error; return url
resolve_except ==
    /\ rpc = "except"
    /\ resolved_url' = url
    /\ log' = Append(log, "error")
    /\ rpc' = "done"
    /\ UNCHANGED <<url, requests, response>>
    /\ UNCHANGED <<run_vars, title_vars>>

\* One call of _resolve_url on each URL, with every answer of the probed
\* server.
ResolveInit ==
    /\ Constructed
    /\ file = EmptyMap
    /\ disk = "ok"
    /\ rpc = "called"
    /\ url \in Urls
    /\ requests = <<>>
    /\ response = NoResponse
    /\ resolved_url = NoneUrl
    /\ log = <<>>
    /\ TitleIdle

ResolveNext ==
    \/ resolve_as_is
    \/ resolve_head
    \/ resolve_get
    \/ resolve_check
    \/ resolve_except

ResolveSpec == ResolveInit /\ [][ResolveNext]_vars

(* ------------------- the title of the link that is saved ---------------- *)

\* A title is the sequence of its parts, as a URL is: <<" ", "Page", " ">>
\* is " Page ", <<>> is the empty string, NoneUrl is None.

\* bool(s) of a string or None
Truthy(s) == s # NoneUrl /\ s # <<>>

PyOrSecond(a, b) == IF Truthy(b) THEN b ELSE a

\* a or b
PyOr(a, b) == IF Truthy(a) THEN a ELSE b

\* s.strip()
RECURSIVE Strip(_)
Strip(s) ==
    IF s = <<>> THEN s
    ELSE IF Head(s) = " " THEN Strip(Tail(s))
    ELSE IF s[Len(s)] = " " THEN Strip(SubSeq(s, 1, Len(s) - 1))
    ELSE s

\* What the GET of the page and its parse give: status "raise" when
\* requests.get, raise_for_status or the parser raised, else whether there
\* is a <title> and its .string (NoneUrl: none, the tag is empty or has
\* children).
Page(status, tag, string) == [status |-> status, tag |-> tag, string |-> string]

NoPage == Page("idle", FALSE, NoneUrl)

Pages ==
    {Page("raise", FALSE, NoneUrl),
     Page("ok", FALSE, NoneUrl),
     Page("ok", TRUE, NoneUrl),
     Page("ok", TRUE, <<" ">>),
     Page("ok", TRUE, <<" ", "Page", " ", "title", " ">>)}

\* push.get('title', ''): null, absent or empty, blank, a title.
PushTitles == {NoneUrl, <<>>, <<" ">>, <<"Push", " ", "title">>}

\* _extract_page_title, its return value
ExtractPageTitle(pg) ==
    IF pg.status = "raise" THEN NoneUrl              \* except Exception
    ELSE IF pg.tag /\ Truthy(pg.string) THEN Strip(pg.string)
    ELSE NoneUrl

\* title = self._extract_page_title(resolved_url) or title
extract_page_title ==
    /\ rpc = "done"
    /\ \E pg \in Pages :
        /\ page' = pg
        /\ title' = PyOr(ExtractPageTitle(pg), title)
        /\ log' = IF pg.status = "raise" THEN Append(log, "warning")
                  ELSE IF pg.tag /\ Truthy(pg.string)
                       THEN Append(log, "debug")
                       ELSE log
    /\ rpc' = "titled"
    /\ UNCHANGED <<url, requests, response, resolved_url, push_title,
                   link_data>>
    /\ UNCHANGED run_vars

\* save_to_linkwarden(resolved_url, title, ...): 'name': title or url
save_to_linkwarden ==
    /\ rpc = "titled"
    /\ link_data' = IF settings.dry_run THEN link_data
                    ELSE [url |-> resolved_url,
                          name |-> PyOr(title, resolved_url)]
    /\ log' = Append(log, "info")
    /\ rpc' = "saved"
    /\ UNCHANGED <<url, requests, response, resolved_url, push_title, page,
                   title>>
    /\ UNCHANGED run_vars

\* process_push from url = push.get('url') on, for each URL and each title
\* of a push.
DeliverInit ==
    /\ Constructed
    /\ file = EmptyMap
    /\ disk = "ok"
    /\ rpc = "called"
    /\ url \in Urls
    /\ requests = <<>>
    /\ response = NoResponse
    /\ resolved_url = NoneUrl
    /\ log = <<>>
    /\ push_title \in PushTitles
    /\ title = push_title
    /\ page = NoPage
    /\ link_data = NoLink

DeliverNext ==
    \/ resolve_as_is
    \/ resolve_head
    \/ resolve_get
    \/ resolve_check
    \/ resolve_except
    \/ extract_page_title
    \/ save_to_linkwarden

DeliverSpec == DeliverInit /\ [][DeliverNext]_vars

\* run() is one sequential thread: a sleep returns, the while-loop goes on,
\* an exception in flight unwinds.
LiveSpec ==
    /\ Spec
    /\ WF_vars(sleep)
    /\ WF_vars(backoff)
    /\ WF_vars(connect_to_pushbullet_stream)
    /\ WF_vars(sys_exit)

(* ------------------------------ properties ----------------------------- *)

Handled == {"saved", "failed", "dryrun"}

RECURSIVE Pow2(_)
Pow2(n) == IF n = 0 THEN 1 ELSE 2 * Pow2(n - 1)

\* A push that process_push is to post when its device's watermark allows:
\* a link with a URL whose owning device has a channel with a collection.
Eligible(push) ==
    /\ push.type = "link"
    /\ push.url # None
    /\ get_collection_for_device(config.channels, OwningDevice(push)) # None

\* A for-loop over a fetched list has handled the whole list.
PassDone ==
    /\ pc \in {"catchup_push", "message"}
    /\ queue = <<>>
    /\ last.op # "baseline"

\* The requests of the pass that posted this push and were answered.
Stored(push) == {j \in DOMAIN delivered :
                    delivered[j].push = push /\ delivered[j].ok}

\* C1: for every device, the in-memory watermark never decreases and is
\* never removed: every step leaves each entry of processed_pushes in place
\* with a value at least as large.
C1_WatermarkNonDecreasing ==
    [][\A d \in DOMAIN processed_pushes :
          /\ d \in DOMAIN processed_pushes'
          /\ processed_pushes'[d] >= processed_pushes[d]]_vars

\* A push has replaced an existing watermark by a larger one.
C1_Witness ==
    /\ last.op = "push"
    /\ last.outcome \in Handled
    /\ last.wm # NoWm
    /\ processed_pushes[last.dev] > last.wm

\* C2: every push that process_push hands to save_to_linkwarden, in the
\* catch-up or after a tickle, has a modified stamp strictly greater than
\* the watermark its device had at that moment, when it had one.
C2_NoStaleDelivery ==
    /\ \A i \in DOMAIN delivered :
          delivered[i].wm # NoWm => delivered[i].push.modified > delivered[i].wm
    /\ (last.op = "push" /\ last.outcome \in Handled /\ last.wm # NoWm)
          => last.push.modified > last.wm

\* After a tickle a push was posted for a device that had a watermark, and a
\* push at that watermark was dropped before it.
C2_Witness ==
    /\ pc = "message"
    /\ Len(polled) = 2
    /\ Len(delivered) = 1
    /\ delivered[1].wm # NoWm
    /\ polled[1].modified = delivered[1].wm
    /\ OwningDevice(polled[1]) = delivered[1].dev
    /\ IsLink(polled[1])

\* C3: when a pass over a fetched list is through, every eligible push of the
\* list that was newer than the watermark its device had at the fetch has
\* been stored by the sink exactly once.
C3_ExactlyOnce ==
    (PassDone /\ ~settings.dry_run)
    => \A i \in DOMAIN polled :
          (/\ Eligible(polled[i])
           /\ OwningDevice(polled[i]) \in DOMAIN polled_wm
           /\ polled[i].modified > polled_wm[OwningDevice(polled[i])])
          => Cardinality(Stored(polled[i])) = 1

\* C4: after a POST /links that failed, the in-memory and the persisted
\* watermark of the push's device are what they were before the push, and
\* the push still passes the idempotence check.
C4_FailureKeepsWatermark ==
    (last.op = "push" /\ last.outcome = "failed")
    => /\ Watermark(processed_pushes, last.dev) = last.wm
       /\ Watermark(file, last.dev) = last.wm
       /\ ~AlreadyProcessed(processed_pushes, last.dev, last.push.modified)

\* C5: when a pass over a fetched list is through, every eligible push of the
\* list that is newer than the watermark W its device had at the fetch has
\* been handed to the sink, and the pushes were handed over in ascending
\* order of modified.
C5_AllNewerAscending ==
    (PassDone /\ ~settings.dry_run)
    => /\ \A i \in DOMAIN polled :
             (/\ Eligible(polled[i])
              /\ OwningDevice(polled[i]) \in DOMAIN polled_wm
              /\ polled[i].modified > polled_wm[OwningDevice(polled[i])])
             => \E j \in DOMAIN delivered : delivered[j].push = polled[i]
       /\ \A j, k \in DOMAIN delivered :
             j < k => delivered[j].push.modified <= delivered[k].push.modified

\* C6: during the startup catch-up no push is handed to the sink for a
\* device that had no watermark when the process started, and the baseline
\* of such a device records the largest modified of its fetched link pushes.
C6_NewDeviceNotProcessed ==
    pc \in {"catchup", "catchup_push"}
    => /\ \A j \in DOMAIN delivered : delivered[j].dev \in DOMAIN start_wm
       /\ (last.op = "push" /\ last.outcome \in Handled)
             => last.dev \in DOMAIN start_wm
       /\ (last.op = "baseline" /\ LinkPushesOf(polled, last.dev) # {})
             => processed_pushes[last.dev] =
                  SetMax({p.modified : p \in LinkPushesOf(polled, last.dev)})

\* C7: a device with no watermark whose baseline fetch returns none of its
\* link pushes gets the time.time() of the baseline as its watermark; while
\* that is its watermark, process_push of a link push of the device with a
\* URL and modified = now - 1 posts nothing and changes no watermark, and
\* one with modified = now + 100 is posted and makes now + 100 the watermark.
C7_BaselineNow ==
    /\ [](last.op = "baseline" /\ last.outcome = "now"
            => /\ last.dev \in DOMAIN now_at
               /\ processed_pushes[last.dev] = now_at[last.dev])
    /\ [][(/\ pc \in {"catchup_push", "message"}
           /\ queue # <<>>
           /\ last'.op = "push"
           /\ ~settings.dry_run
           /\ Head(queue).type = "link"
           /\ Head(queue).url # None
           /\ OwningDevice(Head(queue)) \in DOMAIN now_at
           /\ Watermark(processed_pushes, OwningDevice(Head(queue)))
                 = now_at[OwningDevice(Head(queue))])
          => LET push == Head(queue)
                 d == OwningDevice(push)
                 now == now_at[d]
             IN  /\ push.modified = now - 1
                    => /\ delivered' = delivered
                       /\ processed_pushes' = processed_pushes
                       /\ last'.outcome = "already"
                 /\ push.modified = now + 100
                    => /\ Len(delivered') = Len(delivered) + 1
                       /\ delivered'[Len(delivered')].push = push
                       /\ processed_pushes'[d] = now + 100]_vars

\* A device was baselined to now; of one fetched list the push with
\* modified = now - 1 was dropped and the push with modified = now + 100 was
\* posted and is the watermark.
C7_Witness ==
    /\ last.op = "push"
    /\ last.dev \in DOMAIN now_at
    /\ last.wm = now_at[last.dev]
    /\ last.push.modified = last.wm + 100
    /\ Len(polled) = 2
    /\ polled[1].type = "link"
    /\ OwningDevice(polled[1]) = last.dev
    /\ polled[1].modified = last.wm - 1
    /\ Len(delivered) = 1
    /\ delivered[1].push = last.push
    /\ processed_pushes[last.dev] = last.wm + 100

C9_BackoffClosedForm ==
    pc \in {"loop", "stream", "message", "closed", "sleeping"}
    => reconnect_delay =
          Min(settings.reconnect_initial_delay * Pow2(failures),
              settings.reconnect_max_delay)

\* C10: on every successful open the delay is the configured initial delay,
\* so the sleep that follows the close of an opened connection lasts exactly
\* the initial delay.
C10_ResetOnOpen ==
    /\ es = "CONNECTED" => reconnect_delay = settings.reconnect_initial_delay
    /\ (pc = "sleeping" /\ es = "CLOSED")
          => wait = settings.reconnect_initial_delay

\* The run sleeps after an opened connection closed, for an initial delay
\* that is not the delay the object was built with.
C10_Witness ==
    /\ pc = "sleeping"
    /\ es = "CLOSED"
    /\ wait = settings.reconnect_initial_delay
    /\ wait # InitReconnectDelay

\* C11: in every reachable state the reconnect delay is at most the
\* configured reconnect_max_delay.
C11_DelayCapped == reconnect_delay <= settings.reconnect_max_delay

\* C12: once a shutdown signal is handled, in whatever phase it arrived, no
\* connection is open or being opened, the connection state never changes
\* again (no new attempt), and the process ends with status 0 and stays
\* ended.
C12_ShutdownOnSignal ==
    /\ [](~running => es \notin {"CONNECTING", "CONNECTED"})
    /\ [][~running => (~running' /\ es' = es)]_vars
    /\ [][pc = "exit0" => pc' = "exit0"]_vars
    /\ (~running ~> pc = "exit0")

\* The signal arrived while a frame's pushes were being handled on an open
\* connection; the connection is closed and the process has ended.
C12_Witness ==
    /\ pc = "exit0"
    /\ ~running
    /\ es = "CLOSED"
    /\ last.op = "signal"
    /\ last.outcome = "message"

\* The phases of the while-loop of run().
InLoop == {"loop", "stream", "message", "closed", "sleeping"}

\* C13: in the reconnect loop, as long as no shutdown signal is handled,
\* every end of a connection (never opened, closed after it opened, or an
\* exception out of connect_to_pushbullet_stream) is followed by a sleep of
\* the current delay and then by a new connection attempt, and no step ends
\* the process.
C13_FailureRetried ==
    /\ ((pc = "closed" /\ running /\ failures < MaxFailures)
           ~> (pc = "sleeping" \/ ~running))
    /\ (pc = "sleeping" ~> ((pc = "stream" /\ es = "CONNECTING") \/ ~running))
    /\ [](pc = "sleeping" => (wait = reconnect_delay /\ wait > 0))
    /\ [][(pc \in InLoop /\ running') => pc' \in InLoop]_vars

\* A new attempt is under way after two failed cycles in a row.
C13_Witness ==
    /\ pc = "stream"
    /\ es = "CONNECTING"
    /\ running
    /\ failures >= 2

\* C14: a process_push that raises does not end the process, and the
\* for-loop it was called from goes on with the pushes that follow it.
C14_PushErrorContained ==
    [][(/\ pc \in {"catchup_push", "message"}
        /\ queue # <<>>
        /\ last'.op = "push"
        /\ Outcome(config.channels, processed_pushes, Head(queue)) = "raise")
       => /\ pc' = pc
          /\ queue' = Tail(queue)]_vars

\* C15: a frame that is no JSON, or is not a tickle of subtype push, starts
\* no fetch and no for-loop, posts nothing, leaves the in-memory and the
\* persisted watermarks as they are and leaves the connection open with its
\* delay unchanged.
C15_OtherFrameIgnored ==
    [][(/\ last' # last
        /\ last'.op = "frame"
        /\ last'.outcome # "tickle-push")
       => /\ pc = "stream" /\ pc' = "stream"
          /\ es = "CONNECTED" /\ es' = "CONNECTED"
          /\ queue' = <<>> /\ polled' = polled /\ delivered' = delivered
          /\ processed_pushes' = processed_pushes
          /\ file' = file
          /\ reconnect_delay' = reconnect_delay
          /\ wait' = wait]_vars

\* A tickle of another subtype was handled on the open connection, after a
\* push tickle had been handled before it.
C15_Witness ==
    /\ last.op = "frame"
    /\ last.outcome = "tickle-device"
    /\ pc = "stream"
    /\ es = "CONNECTED"
    /\ \E d \in DOMAIN processed_pushes : processed_pushes[d] = MaxStamp

\* C16: when the for-loop of a push tickle is through (no exception, every
\* channel device with a watermark at the fetch), the pushes handed to the
\* sink and the watermarks are those the incremental branch of
\* process_initial_pushes gives from the same watermarks and the same list
\* of pushes on the server.
C16_TickleLikeCatchup ==
    (/\ pc = "message"
     /\ queue = <<>>
     /\ ~settings.dry_run
     /\ last.outcome # "raised"
     /\ \A p \in Range(polled) : p.url # NotAStr
     /\ \A i \in DOMAIN config.channels :
           \/ config.channels[i].device_iden = None
           \/ config.channels[i].device_iden \in DOMAIN polled_wm)
    => LET r == IncrementalCatchup(config.channels, polled_wm, <<>>,
                                   polled, 1)
       IN  /\ r.pp = processed_pushes
           /\ Range(r.sent) = {delivered[j].push : j \in DOMAIN delivered}

\* C17: process_push of a link push takes the target device as the owning
\* device when the push has one and the source device otherwise. With no
\* owning device, or none that a channel names, it posts nothing and leaves
\* every watermark as it is. Otherwise whatever it posts goes to the
\* collection of a channel of the owning device, the watermark it compares
\* with is the owning device's, and no other device's entry changes.
C17_OwningDeviceRouting ==
    [][(/\ pc \in {"catchup_push", "message"}
        /\ queue # <<>>
        /\ last'.op = "push"
        /\ Head(queue).type = "link")
       => LET push == Head(queue)
              d == IF push.target_device_iden # None
                   THEN push.target_device_iden
                   ELSE push.source_device_iden
              Of(d0) == {i \in DOMAIN config.channels :
                           config.channels[i].device_iden = d0}
          IN  /\ last'.push = push
              /\ last'.dev = d
              /\ (d = None \/ Of(d) = {})
                    => /\ delivered' = delivered
                       /\ processed_pushes' = processed_pushes
                       /\ file' = file
              /\ (d # None /\ Of(d) # {})
                    => /\ \A j \in DOMAIN delivered' \ DOMAIN delivered :
                             /\ delivered'[j].push = push
                             /\ delivered'[j].dev = d
                             /\ \E i \in Of(d) :
                                   config.channels[i].collection_id
                                      = delivered'[j].coll
                       /\ last'.wm = Watermark(processed_pushes, d)
                       /\ DOMAIN processed_pushes'
                             \subseteq DOMAIN processed_pushes \cup {d}
                       /\ \A e \in DOMAIN processed_pushes \ {d} :
                             processed_pushes'[e] = processed_pushes[e]]_vars

\* A push from d1 to d2 was posted to the collection of d2 and moved the
\* watermark of d2, and a push with only a source device was posted for it.
C17_Witness ==
    /\ last.op = "push"
    /\ last.outcome = "saved"
    /\ last.push.target_device_iden = None
    /\ last.push.source_device_iden = "d1"
    /\ last.dev = "d1"
    /\ Len(delivered) = 2
    /\ delivered[1].push.target_device_iden = "d2"
    /\ delivered[1].push.source_device_iden = "d1"
    /\ delivered[1].coll = "c2"
    /\ delivered[2].coll = "c1"
    /\ processed_pushes["d2"] = delivered[1].push.modified

\* C18: between two pushes the persisted map equals the in-memory map, and
\* after a crash and restart a push the sink had stored in the pass the
\* crash ended is posted again only if it is the push that was in flight.
C18_PersistedAfterEveryAdvance ==
    /\ pc \in {"catchup", "catchup_push", "message", "loop", "stream",
               "closed", "sleeping"}
          => file = processed_pushes
    /\ restarts > 0
          => \A j \in DOMAIN delivered :
                delivered[j].push \in before_crash
                   => delivered[j].push = inflight

\* C19: _resolve_url of a URL that does not begin with https://search.app/
\* returns that URL and has issued no request.
C19_NoPatternUnchanged ==
    (/\ rpc = "done"
     /\ ~(/\ Len(url) >= 3
          /\ url[1] = "https://"
          /\ url[2] = "search.app"
          /\ url[3] = "/"))
    => /\ resolved_url = url
       /\ requests = <<>>

\* _resolve_url has returned the http:// URL of the search.app host as it
\* was.
C19_Witness ==
    /\ rpc = "done"
    /\ url = <<"http://", "search.app", "/", "abc">>
    /\ resolved_url = url

\* The call began with https://search.app/ and has returned.
ProbedDone ==
    /\ rpc = "done"
    /\ Len(url) >= 3
    /\ url[1] = "https://" /\ url[2] = "search.app" /\ url[3] = "/"

\* The probing of a returned call: HEAD first, then GET exactly when HEAD
\* was answered 403.
ProbedHeadThenGet ==
    /\ Len(requests) \in {1, 2}
    /\ requests[1].method = "HEAD"
    /\ Len(requests) = 2 <=> requests[1].answer.status_code = 403
    /\ Len(requests) = 2 => requests[2].method = "GET"

\* C20 as the claim has it: for a URL that begins with https://search.app/
\* the call probes with HEAD, and with GET exactly when HEAD was answered
\* 403; it returns the Location header of the last response when that has a
\* redirect status and the header is present, and the URL itself otherwise.
C20_LocationIfPresent ==
    ProbedDone
    => LET final == requests[Len(requests)].answer
       IN  /\ ProbedHeadThenGet
           /\ resolved_url =
                 IF /\ final.status_code \in {301, 302, 303, 307, 308}
                    /\ final.location # NoneUrl
                 THEN final.location
                 ELSE url

\* C20, amended: as above, with the Location header returned when it is
\* present and not empty, and the URL itself also when the header is empty.
C20_LocationIfNotEmpty ==
    ProbedDone
    => LET final == requests[Len(requests)].answer
       IN  /\ ProbedHeadThenGet
           /\ resolved_url =
                 IF /\ final.status_code \in {301, 302, 303, 307, 308}
                    /\ final.location # NoneUrl
                    /\ final.location # <<>>
                 THEN final.location
                 ELSE url

\* HEAD was answered 403, GET 302 with a Location, and that Location was
\* returned for https://search.app/abc.
C20_Witness ==
    /\ rpc = "done"
    /\ url = <<"https://", "search.app", "/", "abc">>
    /\ Len(requests) = 2
    /\ requests[1].answer.status_code = 403
    /\ requests[2].answer.status_code = 302
    /\ resolved_url = <<"https://", "example.com", "/", "page">>

\* The returned call ended without a redirect: a probing request raised, or
\* the last response has no redirect status or no usable Location header.
NoRedirect ==
    LET final == requests[Len(requests)].answer
    IN  \/ final = Raised
        \/ final.status_code \notin Redirects
        \/ final.location \in {NoneUrl, <<>>}

\* C21: a call for a URL that begins with https://search.app/ and ends
\* without a redirect, the probing request having failed or the response
\* carrying no redirect Location, returns the URL it was called with and
\* logs the outcome at warning level; it logs nothing at error level.
C21_NoRedirectWarned ==
    (ProbedDone /\ NoRedirect)
    => /\ resolved_url = url
       /\ log[Len(log)] = "warning"
       /\ \A i \in DOMAIN log : log[i] # "error"

\* C22: the name of the link in the POST /links is the stripped string of
\* the page's <title> when the page was fetched and parsed and that string
\* is not empty, otherwise the title of the push when it is not empty,
\* otherwise the resolved URL; the link is put together with the resolved
\* URL also when fetching or parsing the page raised.
C22_TitleFallback ==
    /\ rpc = "titled" => ENABLED save_to_linkwarden
    /\ rpc = "saved"
       => /\ link_data.url = resolved_url
          /\ link_data.name =
                IF /\ page.status = "ok"
                   /\ page.tag
                   /\ page.string # NoneUrl
                   /\ Strip(page.string) # <<>>
                THEN Strip(page.string)
                ELSE IF push_title # NoneUrl /\ push_title # <<>>
                     THEN push_title
                     ELSE resolved_url

\* Fetching the page raised, the push has a title, and the link was put
\* together under that title with the URL the redirect gave.
C22_Witness ==
    /\ rpc = "saved"
    /\ page.status = "raise"
    /\ push_title = <<"Push", " ", "title">>
    /\ link_data.name = push_title
    /\ link_data.url = <<"https://", "example.com", "/", "page">>
    /\ url = <<"https://", "search.app", "/", "abc">>

\* The phases of run() before its while-loop, in the order the claim gives.
PhaseOrder == <<"config", "validate", "directories", "watermarks", "catchup">>

\* C23: the phases that have returned are an initial part of load config,
\* validate config, directory resolution, load watermarks, catch-up pass.
\* With a configuration that fails validation the process ends with status
\* 1 after validation, with no directory call, push fetch, request to the
\* sink or stream connection made; a directory call is made only after
\* validation, a fetch or a request to the sink only after the watermarks
\* are loaded, and a stream connection only after the catch-up pass has
\* returned.
C23_PhaseOrder ==
    /\ Len(phases) <= Len(PhaseOrder)
    /\ phases = SubSeq(PhaseOrder, 1, Len(phases))
    /\ (Len(phases) >= 2 /\ config.channels = <<>>)
       => /\ pc = "exit1"
          /\ phases = <<"config", "validate">>
          /\ calls = {}
          /\ es = "DISCONNECTED"
    /\ pc = "exit1" => config.channels = <<>>
    /\ "directory" \in calls => Len(phases) >= 2
    /\ calls \cap {"fetch", "sink"} # {} => Len(phases) >= 4
    /\ ("stream" \in calls \/ es # "DISCONNECTED") => Len(phases) = 5

\* The catch-up pass has returned with a fetch and a request to the sink
\* behind it, and the stream is connected.
C23_Witness ==
    /\ phases = PhaseOrder
    /\ calls = {"directory", "fetch", "sink", "stream"}
    /\ es = "CONNECTED"
    /\ pc = "stream"

\* process_initial_pushes has returned.
CaughtUp == Len(phases) = Len(PhaseOrder)

\* C24: once process_initial_pushes has returned, every channel of the
\* configuration with a device identifier has an entry in processed_pushes,
\* no step takes an entry away, and every push that process_push compares
\* with a watermark while a tickle is handled finds an entry for its device.
C24_TrackedHaveWatermark ==
    /\ [](CaughtUp
          => /\ \A i \in DOMAIN config.channels :
                    config.channels[i].device_iden # None
                    => config.channels[i].device_iden
                          \in DOMAIN processed_pushes
             /\ (/\ pc = "message"
                 /\ last.op = "push"
                 /\ last.outcome \notin {"nonlink", "nodevice",
                                         "nocollection"})
                => last.wm # NoWm)
    /\ [][CaughtUp
           => DOMAIN processed_pushes \subseteq DOMAIN processed_pushes']_vars

\* A device got its entry from the baseline of the catch-up pass, and a
\* push that came with a tickle was compared with that entry and posted.
C24_Witness ==
    /\ CaughtUp
    /\ pc = "message"
    /\ last.op = "push"
    /\ last.outcome = "saved"
    /\ last.dev \in DOMAIN now_at
    /\ last.wm = now_at[last.dev]

\* C25: with dry_run set no POST /links is made; a push that gets to
\* save_to_linkwarden still has its modified written as the watermark of
\* its device, in memory and in the file, as without dry_run, so that
\* process_push on the same channels and that file drops the push as
\* already processed, whatever dry_run is then.
C25_DryRunAdvances ==
    /\ [](settings.dry_run => (delivered = <<>> /\ "sink" \notin calls))
    /\ [][(/\ pc \in {"catchup_push", "message"}
           /\ queue # <<>>
           /\ last'.op = "push"
           /\ settings.dry_run
           /\ Outcome(config.channels, processed_pushes, Head(queue))
                  = "pass")
          => LET push == Head(queue)
                 device_iden == IF push.target_device_iden # None
                                THEN push.target_device_iden
                                ELSE push.source_device_iden
             IN  /\ delivered' = delivered
                 /\ calls' = calls
                 /\ device_iden \in DOMAIN processed_pushes'
                 /\ processed_pushes'[device_iden] = push.modified
                 /\ \A d \in DOMAIN processed_pushes' \ {device_iden} :
                        /\ d \in DOMAIN processed_pushes
                        /\ processed_pushes'[d] = processed_pushes[d]
                 /\ file' = processed_pushes'
                 /\ Outcome(config.channels, file', push) = "already"]_vars

\* A dry run took a push that came with a tickle past a watermark of 1: the
\* watermark and the file have its modified, and nothing was posted.
C25_Witness ==
    /\ settings.dry_run
    /\ pc = "message"
    /\ last.op = "push"
    /\ last.outcome = "dryrun"
    /\ last.wm = 1
    /\ last.push.modified = MaxStamp
    /\ processed_pushes[last.dev] = MaxStamp
    /\ file = processed_pushes
    /\ calls = {"directory", "fetch", "stream"}

====
